---------------------------- MODULE Spec2Model ----------------------------
(***************************************************************************)
(* fraglevelinfo.py: estimate of Linux memory fragmentation computed from  *)
(* /proc/buddyinfo.  The module models one command-line invocation:        *)
(* option parsing, the platform gate, the scoped read of the data source,  *)
(* the per-line fragmentation computation, and the formatter.              *)
(*                                                                         *)
(* Ratios are Python floats in the program; here a ratio is the exact      *)
(* rational <<numerator, denominator>> the float approximates.             *)
(* A write to the output stream is a record holding the fields of the      *)
(* written text (kind of line, node, zone, order, count, percentage);      *)
(* padding white space is not represented.                                 *)
(***************************************************************************)
EXTENDS Integers, Sequences, FiniteSets, TLC

VARIABLES
    platform_system, \* platform.system() of the host
    argv,            \* the command line, as optparse sees it
    pc,              \* position of the script
    srcOpen,         \* /proc/buddyinfo is currently open
    openCount,       \* number of times /proc/buddyinfo was opened
    consumed,        \* lines the parser's loop has taken from the source
    frag_dict,       \* node -> zone -> order -> <<free_count, frag_pct>>
    iter,            \* (node, zone) pairs the formatter has still to visit
    out,             \* writes made to standard output
    exc,             \* exception in flight or that ended the run
    exit_code        \* process exit status, NoExit while running

vars == <<platform_system, argv, pc, srcOpen, openCount, consumed,
          frag_dict, iter, out, exc, exit_code>>

(***************************************************************************)
(* Bounds of the model                                                     *)
(***************************************************************************)
MaxLines == 2

ShortLen == 2

MaxCount == 2

MaxNonZero == 3

(***************************************************************************)
(* Program constants                                                       *)
(***************************************************************************)
KernelOrders == 11

MeanDivisor == 11

NoExit == -1

Nodes == {"Node 0", "Node 1"}

Zones == {"DMA", "Normal"}

DMAFixture == <<2, 1, 2, 1, 0, 2, 1, 0, 1, 1, 1>>

ParseErrors == {"ValueError", "IndexError", "ZeroDivisionError"}

EmptyDict == [k \in {} |-> 0]

(***************************************************************************)
(* Input lines.  kind "ok" is "<node>, zone <zone> <c0> <c1> ...";         *)
(* "nocomma" has no (or more than one) comma, "notokens" has fewer than    *)
(* two tokens after the comma, "badint" has a count token that is not an   *)
(* integer literal.                                                        *)
(***************************************************************************)
Zeros(n) == [i \in 1..n |-> 0]

LineLens == {0, ShortLen, KernelOrders}

\* per length: no free block at all, and the first counts of the DMA line
Histograms == UNION { {Zeros(n), SubSeq(DMAFixture, 1, n)} : n \in LineLens }

OkLine(n, z, h) == [kind |-> "ok", node |-> n, zone |-> z, counts |-> h]

OkLines == {OkLine(n, z, h) : n \in Nodes, z \in Zones, h \in Histograms}

BadLines ==
    {[kind |-> k, node |-> "Node 0", zone |-> "DMA", counts |-> <<>>]
       : k \in {"nocomma", "notokens", "badint"}}

Lines == OkLines \cup BadLines

\* the orders that hold free blocks: at most MaxNonZero of them
NonZeroOrders ==
    {X \in SUBSET (1..KernelOrders) : Cardinality(X) <= MaxNonZero}

\* the line of KernelOrders counts whose nonzero counts are those of v
CalcLine(v) ==
    OkLine("Node 0", "DMA",
           [i \in 1..KernelOrders |-> IF i \in DOMAIN v THEN v[i] ELSE 0])

(***************************************************************************)
(* Arithmetic helpers                                                      *)
(***************************************************************************)
RECURSIVE Pow2(_)
Pow2(n) == IF n = 0 THEN 1 ELSE 2 * Pow2(n - 1)

RECURSIVE GCD(_, _)
GCD(a, b) == IF b = 0 THEN a ELSE GCD(b, a % b)

Reduce(r) ==
    LET g == GCD(r[1], r[2]) IN
    IF g = 0 THEN r ELSE <<r[1] \div g, r[2] \div g>>

RatAdd(a, b) == Reduce(<<a[1] * b[2] + b[1] * a[2], a[2] * b[2]>>)

RatLeq(a, b) == a[1] * b[2] <= b[1] * a[2]

(***************************************************************************)
(* _calculate_fragmentation, one line                                      *)
(***************************************************************************)
RECURSIVE SumFrom(_, _)
\* sum of (2**order) * free_count over enumerate(free_pages), from index order
SumFrom(free_pages, order) ==
    IF order >= Len(free_pages) THEN 0
    ELSE Pow2(order) * free_pages[order + 1] + SumFrom(free_pages, order + 1)

TotalFreePages(free_pages) == SumFrom(free_pages, 0)

AtOrAboveWrongWeight(free_pages, order) ==
    LET RECURSIVE Acc(_)
        Acc(_order) ==
            IF _order + order >= Len(free_pages) THEN 0
            ELSE Pow2(_order) * free_pages[_order + order + 1] + Acc(_order + 1)
    IN Acc(0)

AtOrAboveOffByOne(free_pages, order) ==
    LET RECURSIVE Acc(_)
        Acc(_order) ==
            IF _order + order + 1 >= Len(free_pages) THEN 0
            ELSE Pow2(_order + order + 1) * free_pages[_order + order + 2]
                 + Acc(_order + 1)
    IN Acc(0)

\* the inner loop over enumerate(free_pages[order:])
AtOrAbove(free_pages, order) ==
    LET RECURSIVE Acc(_)
        Acc(_order) ==
            IF _order + order >= Len(free_pages) THEN 0
            ELSE Pow2(_order + order) * free_pages[_order + order + 1]
                 + Acc(_order + 1)
    IN Acc(0)

\* float(total_free_pages - frag_pct)/total_free_pages
FragPct(free_pages, total_free_pages, order) ==
    <<total_free_pages - AtOrAbove(free_pages, order), total_free_pages>>

\* frag_dict[node][zone][order] = (free_count, frag_pct), for every order
ZoneDict(free_pages) ==
    LET total_free_pages == TotalFreePages(free_pages) IN
    [order \in 0..(Len(free_pages) - 1) |->
        <<free_pages[order + 1],
          FragPct(free_pages, total_free_pages, order)>>]

ParseOutcomeDivideAlways(line) ==
    CASE line.kind = "nocomma"  -> "ValueError"
      [] line.kind = "notokens" -> "IndexError"
      [] line.kind = "badint"   -> "ValueError"
      [] OTHER -> IF TotalFreePages(line.counts) = 0
                  THEN "ZeroDivisionError" ELSE "none"

ParseOutcomeZeroDefault(line) ==
    CASE line.kind = "nocomma"  -> "ValueError"
      [] line.kind = "notokens" -> "IndexError"
      [] line.kind = "badint"   -> "ValueError"
      [] OTHER -> "none"

\* the exception, if any, that processing one line raises
ParseOutcome(line) ==
    CASE line.kind = "nocomma"  -> "ValueError"
      [] line.kind = "notokens" -> "IndexError"
      [] line.kind = "badint"   -> "ValueError"
      [] OTHER -> IF Len(line.counts) > 0 /\ TotalFreePages(line.counts) = 0
                  THEN "ZeroDivisionError" ELSE "none"

SetDefaultReset(d, node) ==
    [n \in DOMAIN d \cup {node} |-> IF n = node THEN EmptyDict ELSE d[n]]

\* frag_dict.setdefault(node, {})
SetDefault(d, node) ==
    IF node \in DOMAIN d THEN d
    ELSE [n \in DOMAIN d \cup {node} |-> IF n = node THEN EmptyDict ELSE d[n]]

\* frag_dict[node][zone] = zd
SetZone(d, node, zone, zd) ==
    [d EXCEPT ![node] =
        [z \in DOMAIN d[node] \cup {zone} |->
            IF z = zone THEN zd ELSE d[node][z]]]

\* frag_dict after the loop body has run on line (up to the raise, if any)
AfterLine(d, line) ==
    CASE line.kind # "ok" -> d
      [] ParseOutcome(line) = "ZeroDivisionError" ->
            SetZone(SetDefault(d, line.node), line.node, line.zone, EmptyDict)
      [] OTHER ->
            SetZone(SetDefault(d, line.node), line.node, line.zone,
                    ZoneDict(line.counts))

(***************************************************************************)
(* Iteration order of the dictionaries.  frag_dict and its zone dicts are  *)
(* plain dicts keyed by strings: their iteration order is arbitrary, so    *)
(* every order that groups the zones of a node together is possible.  The  *)
(* order dict is keyed by the small ints 0..n-1 inserted ascending, which  *)
(* every dict implementation iterates in ascending order.                  *)
(***************************************************************************)
Pairs(d) == UNION { {<<n, z>> : z \in DOMAIN d[n]} : n \in DOMAIN d }

DictOrders(d) ==
    LET P == Pairs(d)
        k == Cardinality(P)
    IN { s \in [1..k -> P] :
           /\ \A i, j \in 1..k : i # j => s[i] # s[j]
           /\ \A i, j \in 1..k :
                 (i < j /\ s[i][1] = s[j][1])
                    => \A m \in i..j : s[m][1] = s[i][1] }

RECURSIVE IntKeyOrderDescending(_)
IntKeyOrderDescending(keys) ==
    IF keys = {} THEN <<>>
    ELSE LET m == CHOOSE x \in keys : \A y \in keys : x >= y
         IN <<m>> \o IntKeyOrderDescending(keys \ {m})

RECURSIVE IntKeyOrder(_)
IntKeyOrder(keys) ==
    IF keys = {} THEN <<>>
    ELSE LET m == CHOOSE x \in keys : \A y \in keys : x <= y
         IN <<m>> \o IntKeyOrder(keys \ {m})

(***************************************************************************)
(* _print_fragmentation, one (node, zone) block                            *)
(***************************************************************************)
\* "{0:.0%}".format(r): 100*r to zero decimals, ties to even
PctFormat(r) ==
    LET n == 100 * r[1]
        q == n \div r[2]
        m == n % r[2]
    IN IF 2 * m > r[2] THEN q + 1
       ELSE IF 2 * m = r[2] THEN q + (q % 2)
       ELSE q

W(kind, node, zone, order, free, pct) ==
    [kind |-> kind, node |-> node, zone |-> zone,
     order |-> order, free |-> free, pct |-> pct]

\* rows.append((order, free_count, frag_pct)) over zone_dict[zone].iteritems()
Rows(node, zone, zd) ==
    LET ks == IntKeyOrder(DOMAIN zd) IN
    [i \in 1..Len(ks) |->
        W("row", node, zone, ks[i], zd[ks[i]][1], PctFormat(zd[ks[i]][2]))]

\* total_free_pages += (2**order) * free_count
ZoneTotal(zd) ==
    LET ks == IntKeyOrder(DOMAIN zd)
        RECURSIVE Acc(_)
        Acc(i) == IF i > Len(ks) THEN 0
                  ELSE Pow2(ks[i]) * zd[ks[i]][1] + Acc(i + 1)
    IN Acc(1)

\* overall_frag_pct += frag_pct
RatioSum(zd) ==
    LET ks == IntKeyOrder(DOMAIN zd)
        RECURSIVE Acc(_)
        Acc(i) == IF i > Len(ks) THEN <<0, 1>>
                  ELSE RatAdd(zd[ks[i]][2], Acc(i + 1))
    IN Acc(1)

OverallFragPctByRowCount(zd) ==
    IF DOMAIN zd = {} THEN <<0, 1>>
    ELSE <<RatioSum(zd)[1], RatioSum(zd)[2] * Cardinality(DOMAIN zd)>>

\* overall_frag_pct /= 11
OverallFragPct(zd) == <<RatioSum(zd)[1], RatioSum(zd)[2] * MeanDivisor>>

BlockWrites(node, zone, zd) ==
    <<W("header", node, zone, 0, 0, 0), W("columns", node, zone, 0, 0, 0)>>
    \o Rows(node, zone, zd)
    \o <<W("total", node, zone, 0, ZoneTotal(zd), 0),
         W("overall", node, zone, 0, 0, PctFormat(OverallFragPct(zd))),
         W("blank", node, zone, 0, 0, 0)>>

ErrorWrite == W("error", "", "", 0, 0, 0)

UsageWrite == W("usage", "", "", 0, 0, 0)

(***************************************************************************)
(* The script                                                              *)
(***************************************************************************)
Argvs ==
    {[opt |-> "ok", nargs |-> n, unit_test |-> t] : n \in {0, 1}, t \in BOOLEAN}
    \cup {[opt |-> o, nargs |-> 0, unit_test |-> FALSE] : o \in {"help", "error"}}

Init ==
    /\ platform_system \in {"Linux", "Darwin"}
    /\ argv \in Argvs
    /\ pc = "start"
    /\ srcOpen = FALSE
    /\ openCount = 0
    /\ consumed = <<>>
    /\ frag_dict = EmptyDict
    /\ iter = <<>>
    /\ out = <<>>
    /\ exc = "none"
    /\ exit_code = NoExit

WithExitLeak(open) == open

\* leaving the with block, by return or by exception, closes the file
WithExit(open) == FALSE

UncaughtExitZero(e) == IF e = "IOError" THEN 1 ELSE 0

\* exit(1) in the IOError handler; an uncaught exception ends Python with 1
ExitStatus(e) == 1

\* parser.parse_args(); any positional argument shows the help and exits
ParseArgs ==
    /\ pc = "start"
    /\ IF argv.opt = "error"
         THEN /\ pc' = "exit" /\ exit_code' = 2 /\ out' = out
         ELSE IF argv.opt = "help" \/ argv.nargs > 0
         THEN /\ pc' = "exit" /\ exit_code' = 0
              /\ out' = Append(out, UsageWrite)
         ELSE /\ pc' = "platform" /\ exit_code' = exit_code /\ out' = out
    /\ UNCHANGED <<platform_system, argv, srcOpen, openCount, consumed,
                   frag_dict, iter, exc>>

PlatformCheck ==
    /\ pc = "platform"
    /\ IF platform_system # "Linux"
         THEN /\ pc' = "exit" /\ exit_code' = 1
              /\ out' = Append(out, ErrorWrite)
         ELSE /\ pc' = "dispatch" /\ exit_code' = exit_code /\ out' = out
    /\ UNCHANGED <<platform_system, argv, srcOpen, openCount, consumed,
                   frag_dict, iter, exc>>

\* __unit_test(): the runner reports on stderr and its result is not used
UnitTest ==
    /\ pc = "dispatch"
    /\ argv.unit_test
    /\ pc' = "exit"
    /\ exit_code' = 0
    /\ UNCHANGED <<platform_system, argv, srcOpen, openCount, consumed,
                   frag_dict, iter, out, exc>>

\* print_fragmentation -> calculate_fragmentation: open("/proc/buddyinfo")
Open ==
    /\ pc = "dispatch"
    /\ ~argv.unit_test
    /\ \E readable \in BOOLEAN :
         IF readable
           THEN /\ srcOpen' = TRUE /\ openCount' = openCount + 1
                /\ pc' = "parse" /\ exc' = exc
           ELSE /\ srcOpen' = srcOpen /\ openCount' = openCount
                /\ pc' = "raised" /\ exc' = "IOError"
    /\ UNCHANGED <<platform_system, argv, consumed, frag_dict, iter, out,
                   exit_code>>

\* one iteration of "for line in buddyinfo_output"
LoopBody(line) ==
    /\ pc = "parse"
    /\ consumed' = Append(consumed, line)
    /\ frag_dict' = AfterLine(frag_dict, line)
    /\ IF ParseOutcome(line) = "none"
         THEN /\ pc' = pc /\ exc' = exc /\ srcOpen' = srcOpen
         ELSE /\ pc' = "raised" /\ exc' = ParseOutcome(line)
              /\ srcOpen' = WithExit(srcOpen)
    /\ UNCHANGED <<platform_system, argv, openCount, iter, out, exit_code>>

ParseLine == Len(consumed) < MaxLines /\ \E line \in Lines : LoopBody(line)

\* reading the next line fails
ReadError ==
    /\ pc = "parse"
    /\ pc' = "raised"
    /\ exc' = "IOError"
    /\ srcOpen' = WithExit(srcOpen)
    /\ UNCHANGED <<platform_system, argv, openCount, consumed, frag_dict,
                   iter, out, exit_code>>

\* the source is exhausted: return frag_dict, leave the with block, and
\* start iterating frag_dict in _print_fragmentation
EndOfInput ==
    /\ pc = "parse"
    /\ pc' = "print"
    /\ srcOpen' = WithExit(srcOpen)
    /\ iter' \in DictOrders(frag_dict)
    /\ UNCHANGED <<platform_system, argv, openCount, consumed, frag_dict,
                   out, exc, exit_code>>

\* one iteration of the loop over the zones of a node
PrintBlock ==
    /\ pc = "print"
    /\ iter # <<>>
    /\ LET node == Head(iter)[1]
           zone == Head(iter)[2]
       IN out' = out \o BlockWrites(node, zone, frag_dict[node][zone])
    /\ iter' = Tail(iter)
    /\ UNCHANGED <<platform_system, argv, pc, srcOpen, openCount, consumed,
                   frag_dict, exc, exit_code>>

\* the loops are over; the script falls off its end
PrintDone ==
    /\ pc = "print"
    /\ iter = <<>>
    /\ pc' = "exit"
    /\ exit_code' = 0
    /\ UNCHANGED <<platform_system, argv, srcOpen, openCount, consumed,
                   frag_dict, iter, out, exc>>

\* except IOError: print the diagnostic, exit(1); anything else is uncaught
HandleException ==
    /\ pc = "raised"
    /\ pc' = "exit"
    /\ exit_code' = ExitStatus(exc)
    /\ out' = IF exc = "IOError" THEN Append(out, ErrorWrite) ELSE out
    /\ UNCHANGED <<platform_system, argv, srcOpen, openCount, consumed,
                   frag_dict, iter, exc>>

Next ==
    \/ ParseArgs
    \/ PlatformCheck
    \/ UnitTest
    \/ Open
    \/ ParseLine
    \/ ReadError
    \/ EndOfInput
    \/ PrintBlock
    \/ PrintDone
    \/ HandleException

Spec == Init /\ [][Next]_vars

(***************************************************************************)
(* _calculate_fragmentation applied to one line, over every histogram of   *)
(* KernelOrders counts in 0..MaxCount with at most MaxNonZero nonzero      *)
(***************************************************************************)
InitCalc ==
    /\ platform_system = "Linux"
    /\ argv = [opt |-> "ok", nargs |-> 0, unit_test |-> FALSE]
    /\ pc = "parse"
    /\ srcOpen = TRUE
    /\ openCount = 1
    /\ consumed = <<>>
    /\ frag_dict = EmptyDict
    /\ iter = <<>>
    /\ out = <<>>
    /\ exc = "none"
    /\ exit_code = NoExit

Calculate ==
    /\ consumed = <<>>
    /\ \E S \in NonZeroOrders :
         \E v \in [S -> 1..MaxCount] : LoopBody(CalcLine(v))

NextCalc == Calculate

SpecCalc == InitCalc /\ [][NextCalc]_vars

(***************************************************************************)
(* Definitions used to state the properties                                *)
(***************************************************************************)
RECURSIVE PagesBelow(_, _)
\* pages held in blocks of order < o
PagesBelow(counts, o) ==
    IF o = 0 THEN 0
    ELSE PagesBelow(counts, o - 1) + Pow2(o - 1) * counts[o]

PagesIn(counts) == PagesBelow(counts, Len(counts))

WellFormed(line) == line.kind = "ok" /\ Len(line.counts) = KernelOrders

\* the line is the last one of the input read so far for its (node, zone)
IsLastFor(i) ==
    \A j \in (i + 1)..Len(consumed) :
        ~(/\ consumed[j].kind = "ok"
          /\ consumed[j].node = consumed[i].node
          /\ consumed[j].zone = consumed[i].zone)

Stored(line) ==
    /\ line.node \in DOMAIN frag_dict
    /\ line.zone \in DOMAIN frag_dict[line.node]

\* the counts of the last line read for (node, zone)
CountsOf(node, zone) ==
    LET i == CHOOSE k \in 1..Len(consumed) :
                 /\ consumed[k].kind = "ok"
                 /\ consumed[k].node = node
                 /\ consumed[k].zone = zone
                 /\ IsLastFor(k)
    IN consumed[i].counts

RECURSIVE Dedup(_)
Dedup(s) ==
    IF s = <<>> THEN <<>>
    ELSE LET r == Dedup(SubSeq(s, 1, Len(s) - 1))
             x == s[Len(s)]
         IN IF \E i \in 1..Len(r) : r[i] = x THEN r ELSE Append(r, x)

RECURSIVE Flatten(_)
Flatten(ss) == IF ss = <<>> THEN <<>> ELSE Head(ss) \o Flatten(Tail(ss))

\* (node, zone) pairs: nodes by first appearance, zones of a node likewise
EncounterOrder ==
    LET ps == Dedup([i \in 1..Len(consumed) |->
                        <<consumed[i].node, consumed[i].zone>>])
        ns == Dedup([i \in 1..Len(consumed) |-> consumed[i].node])
    IN Flatten([i \in 1..Len(ns) |->
                  SelectSeq(ps, LAMBDA p : p[1] = ns[i])])

IsHeader(w) == w.kind = "header"

\* the (node, zone) pairs of the blocks written, in the order written
HeaderPairs ==
    LET hs == SelectSeq(out, IsHeader)
    IN [i \in 1..Len(hs) |-> <<hs[i].node, hs[i].zone>>]

RECURSIVE SumBelow(_, _)
\* sum over orders < n of PagesBelow(counts, order)
SumBelow(counts, n) ==
    IF n = 0 THEN 0
    ELSE SumBelow(counts, n - 1) + PagesBelow(counts, n - 1)

\* percentage of (sum of the ratios of the zone) / 11
MeanPct(counts) ==
    IF PagesIn(counts) = 0 THEN 0
    ELSE PctFormat(<<SumBelow(counts, Len(counts)), PagesIn(counts) * 11>>)

ExpectedBlock(node, zone) ==
    LET c == CountsOf(node, zone) IN
    <<W("header", node, zone, 0, 0, 0), W("columns", node, zone, 0, 0, 0)>>
    \o [i \in 1..Len(c) |->
          W("row", node, zone, i - 1, c[i],
            PctFormat(<<PagesBelow(c, i - 1), PagesIn(c)>>))]
    \o <<W("total", node, zone, 0, PagesIn(c), 0),
         W("overall", node, zone, 0, 0, MeanPct(c)),
         W("blank", node, zone, 0, 0, 0)>>

ParseReturned == pc \in {"print", "exit"} /\ openCount = 1 /\ exc = "none"

(***************************************************************************)
(* Properties                                                              *)
(***************************************************************************)

\* C1: for a line of 11 counts with positive total T, the zone stores for
\* each order o the pair (count[o], ratio[o]) with ratio[o] * T equal to the
\* pages held in blocks of order below o.
C1_RatioFormula ==
    \A i \in 1..Len(consumed) :
        LET l == consumed[i]
            T == PagesIn(l.counts)
        IN (WellFormed(l) /\ T > 0 /\ IsLastFor(i)) =>
             /\ Stored(l)
             /\ LET zd == frag_dict[l.node][l.zone] IN
                \A o \in 0..(KernelOrders - 1) :
                   /\ o \in DOMAIN zd
                   /\ zd[o][1] = l.counts[o + 1]
                   /\ zd[o][2][2] # 0
                   /\ zd[o][2][1] * T = PagesBelow(l.counts, o) * zd[o][2][2]

C1_Witness ==
    /\ Len(consumed) = 1
    /\ exc = "none"
    /\ WellFormed(consumed[1])
    /\ Stored(consumed[1])
    /\ LET r == frag_dict[consumed[1].node][consumed[1].zone][5][2]
       IN 0 < r[1] /\ r[1] < r[2]

\* C2: for a zone computed from 11 counts with positive total,
\* 0 = ratio[0] <= ratio[1] <= ... <= ratio[10] <= 1.
C2_Monotone ==
    \A i \in 1..Len(consumed) :
        LET l == consumed[i] IN
        (WellFormed(l) /\ PagesIn(l.counts) > 0 /\ IsLastFor(i)) =>
             /\ Stored(l)
             /\ LET zd == frag_dict[l.node][l.zone] IN
                /\ DOMAIN zd = 0..(KernelOrders - 1)
                /\ \A o \in DOMAIN zd : zd[o][2][2] > 0
                /\ zd[0][2][1] = 0
                /\ \A o \in 0..(KernelOrders - 2) :
                      RatLeq(zd[o][2], zd[o + 1][2])
                /\ RatLeq(zd[KernelOrders - 1][2], <<1, 1>>)

C2_Witness ==
    /\ Len(consumed) = 1
    /\ exc = "none"
    /\ WellFormed(consumed[1])
    /\ Stored(consumed[1])
    /\ LET zd == frag_dict[consumed[1].node][consumed[1].zone] IN
       /\ zd[0][2][1] = 0
       /\ ~RatLeq(zd[5][2], zd[0][2])
       /\ ~RatLeq(zd[10][2], zd[5][2])
       /\ ~RatLeq(<<1, 1>>, zd[10][2])

C4_ZeroTotalRaises ==
    \A i \in 1..Len(consumed) :
        LET l == consumed[i] IN
        (WellFormed(l) /\ \A k \in 1..KernelOrders : l.counts[k] = 0) =>
            /\ i = Len(consumed)
            /\ exc = "ZeroDivisionError"
            /\ pc \in {"raised", "exit"}
            /\ iter = <<>>
            /\ out = <<>>

C4_Witness ==
    /\ pc = "exit"
    /\ exc = "ZeroDivisionError"
    /\ Len(consumed) = 2
    /\ WellFormed(consumed[1])
    /\ WellFormed(consumed[2])
    /\ PagesIn(consumed[2].counts) = 0
    /\ out = <<>>

\* C5: for well-formed lines the result has exactly the node labels of the
\* input as keys, under each node exactly the zones of its lines, and under
\* every (node, zone) the orders 0..10.
C5_KeySets ==
    (/\ pc \in {"parse", "print", "exit"}
     /\ exc = "none"
     /\ \A i \in 1..Len(consumed) : WellFormed(consumed[i]))
      => /\ DOMAIN frag_dict = {consumed[i].node : i \in 1..Len(consumed)}
         /\ \A n \in DOMAIN frag_dict :
              /\ DOMAIN frag_dict[n] =
                   {consumed[i].zone :
                      i \in {k \in 1..Len(consumed) : consumed[k].node = n}}
              /\ \A z \in DOMAIN frag_dict[n] :
                   DOMAIN frag_dict[n][z] = 0..(KernelOrders - 1)

C5_Witness ==
    /\ pc = "print"
    /\ Len(consumed) = 2
    /\ WellFormed(consumed[1])
    /\ WellFormed(consumed[2])
    /\ consumed[1].node = consumed[2].node
    /\ consumed[1].zone # consumed[2].zone
    /\ Cardinality(DOMAIN frag_dict[consumed[1].node]) = 2

\* C6: the data source is opened at most once, is open only while the
\* parser's loop runs, and is closed on every way out of it.
C6_ScopedSource ==
    /\ openCount <= 1
    /\ srcOpen => (pc = "parse" /\ openCount = 1)
    /\ pc \in {"parse", "print"} => openCount = 1
    /\ pc \in {"raised", "print", "exit"} => ~srcOpen

C6_Witness ==
    /\ pc = "raised"
    /\ exc \in ParseErrors
    /\ openCount = 1
    /\ ~srcOpen

\* C7 (as claimed): exit code 1 when the platform is not Linux or the data
\* source cannot be opened or read, 0 in every other case.
C7_ExitCodes ==
    pc = "exit" =>
        exit_code = IF platform_system # "Linux" \/ exc = "IOError"
                    THEN 1 ELSE 0

\* C7 (amended): exit code 2 on an option error; 0 when the help is shown
\* (help or version option, or any positional argument); otherwise 1 when
\* the platform is not Linux; otherwise 0 in test mode; otherwise 1 when the
\* source cannot be opened or read or when the input fails to parse; 0 else.
C7_ExitCodesAmended ==
    pc = "exit" =>
        exit_code =
            CASE argv.opt = "error" -> 2
              [] argv.opt = "help" \/ argv.nargs > 0 -> 0
              [] OTHER ->
                   IF platform_system # "Linux" THEN 1
                   ELSE IF argv.unit_test THEN 0
                   ELSE IF exc = "IOError" \/ exc \in ParseErrors THEN 1
                   ELSE 0

C7_Witness ==
    /\ pc = "exit"
    /\ platform_system = "Linux"
    /\ exc \in ParseErrors
    /\ exit_code = 1

\* C8: in every block written, the total free pages is the sum over the
\* zone's orders of 2^order * free_count, and the overall fragmentation is
\* the sum of the zone's ratios divided by 11, whatever the number of orders.
C8_Footer ==
    \A i \in 1..Len(out) :
        LET w == out[i] IN
        /\ w.kind = "total" => w.free = PagesIn(CountsOf(w.node, w.zone))
        /\ w.kind = "overall" => w.pct = MeanPct(CountsOf(w.node, w.zone))

C8_Witness ==
    \E i \in 1..Len(out) :
        /\ out[i].kind = "overall"
        /\ Len(CountsOf(out[i].node, out[i].zone)) = ShortLen
        /\ out[i].pct > 0
        /\ out[i - 1].kind = "total"
        /\ out[i - 1].free > 0

\* C9 (as claimed): one block per (node, zone) pair, in the order in which
\* the nodes, and the zones within each node, appear in the input.
C9_EncounterOrder ==
    (pc = "exit" /\ openCount = 1 /\ exc = "none")
        => HeaderPairs = EncounterOrder

=============================================================================
